---- MODULE Spec2Model ----
(***************************************************************************)
(* Session and token lifecycle of the InternHub front end:                 *)
(*   ApiClient     (src/lib/api.ts, the class of lines 453-1058)           *)
(*   AuthProvider  (src/contexts/AuthContext.tsx)                          *)
(* The host is single threaded; the suspension points are the network      *)
(* calls, so one action is one task: an operation up to its first network  *)
(* call, or the arrival of a response with everything that runs until the  *)
(* next network call.  The backend is the environment: it answers every    *)
(* call in every way its interface (spec section 6) allows.                *)
(***************************************************************************)
EXTENDS Integers, FiniteSets, Sequences, TLC

(* ------------------------------ bounds -------------------------------- *)
MaxCalls == 2          \* requests that can be in flight at the same time
MaxOps == 2            \* operations the application starts in one behaviour
MaxReloads == 1        \* page reloads by the user in one behaviour
MaxToken == 3          \* distinct token values the backend issues
MaxLoc == 3            \* elements of a validation error's loc
MaxDetail == 2         \* validation errors in one detail array
MaxPhrases == 2        \* fragments of an error's message
MaxRoles == 2          \* elements of ProtectedRoute's allowedRoles

(* ------------------------------ values -------------------------------- *)
Null == 0                               \* null / undefined / missing key
Tokens == 1..MaxToken                   \* opaque, non-empty token strings
Users == {"admin", "student"}           \* User.role identifies the user
NoUser == "none"                        \* user === null
Slots == 1..MaxCalls

\* The backend's side of a token: whose session it belongs to.
Owner(t) == IF t % 2 = 1 THEN "admin" ELSE "student"

NoErr == [src |-> "none", status |-> 0, code |-> "none"]

\* AxiosError of a request (src = "request") or of the refresh call
\* (src = "refresh"); status 0 means error.response is undefined.
Err(src, status, code) == [src |-> src, status |-> status, code |-> code]

ErrorStatuses == {401, 403, 500}
NetworkCodes == {"ERR_NETWORK", "ECONNABORTED"}   \* no response / timeout

Failures(src) ==
  {Err(src, s, "ERR_BAD_RESPONSE") : s \in ErrorStatuses}
    \cup {Err(src, 0, k) : k \in NetworkCodes}

VARIABLES
  hasWindow,      \* typeof window !== 'undefined'
  accessToken,    \* ApiClient.accessToken
  refreshToken,   \* ApiClient.refreshToken
  localStorage,   \* the keys access_token and refresh_token
  href,           \* a navigation assigned to window.location.href, pending
  user,           \* AuthProvider state
  loading,        \* AuthProvider state
  mounted,        \* AuthProvider's mount effect has run
  calls,          \* the operations in progress, one per slot
  ops,            \* operations started so far
  reloads,        \* reloads so far
  caught,         \* the error a page hands to formatApiError
  formatted,      \* what formatApiError returned
  allowedRoles,   \* ProtectedRoute's prop
  rendered,       \* what ProtectedRoute returned last
  pushed,         \* the last router.push of ProtectedRoute's effect
  effectPending   \* ProtectedRoute's effect is due

clientVars == <<hasWindow, accessToken, refreshToken, localStorage, href,
                mounted, calls, ops, reloads>>
formatVars == <<caught, formatted>>
routeVars == <<allowedRoles, rendered, pushed, effectPending>>

vars == <<hasWindow, accessToken, refreshToken, localStorage, href, user,
          loading, mounted, calls, ops, reloads, caught, formatted,
          allowedRoles, rendered, pushed, effectPending>>

(* JavaScript values: undefined, strings (sequences of fragments), arrays *)
(* and other objects.                                                     *)
Undefined == [type |-> "undefined"]
Str(chars) == [type |-> "string", chars |-> chars]
Arr(items) == [type |-> "array", items |-> items]
Obj == [type |-> "object"]


FreeCall ==
  [op |-> "none", via |-> "none", phase |-> "free", creds |-> NoUser,
   arg |-> Null, retry |-> FALSE, auth |-> Null, error |-> NoErr,
   rtSent |-> Null, refreshed |-> Null, rotated |-> Null,
   refreshErr |-> NoErr,
   dispatches |-> 0, refreshes |-> 0, outcome |-> "none", err |-> NoErr]

\* The path of each ApiClient method that goes through the shared client.
Url(op) ==
  CASE op = "signIn" -> "/auth/sign-in"
    [] op = "signUp" -> "/auth/sign-up"
    [] op = "getCurrentUser" -> "/auth/me"
    [] op = "signOut" -> "/auth/sign-out"
    [] OTHER -> "/internships"

(* ------------------------- ApiClient: tokens -------------------------- *)
\* A world is the part of the state one task reads and writes: the client's
\* tokens, the storage, the provider's state and the task's own request.
World(c) ==
  [accessToken |-> accessToken, refreshToken |-> refreshToken,
   localStorage |-> localStorage, href |-> href, user |-> user,
   loading |-> loading, req |-> calls[c]]

setAccessToken(w, token) ==
  [w EXCEPT !.accessToken = token,
            !.localStorage =
               IF hasWindow
               THEN IF token # Null
                    THEN [@ EXCEPT !.access_token = token]
                    ELSE [@ EXCEPT !.access_token = Null]
               ELSE @]

\* setRefreshToken keeping the token in memory only.
setRefreshTokenMemoryOnly(w, token) == [w EXCEPT !.refreshToken = token]

setRefreshToken(w, token) ==
  [w EXCEPT !.refreshToken = token,
            !.localStorage =
               IF hasWindow
               THEN IF token # Null
                    THEN [@ EXCEPT !.refresh_token = token]
                    ELSE [@ EXCEPT !.refresh_token = Null]
               ELSE @]

clearTokens(w) ==
  [w EXCEPT !.accessToken = Null,
            !.refreshToken = Null,
            !.localStorage =
               IF hasWindow
               THEN [access_token |-> Null, refresh_token |-> Null]
               ELSE @]

\* signIn and signUp after the response arrived.
storeAuthResponse(w, data) ==
  LET w1 == setAccessToken(w, data.access_token)
  IN IF data.refresh_token # Null
     THEN setRefreshToken(w1, data.refresh_token)
     ELSE w1

(* --------------------- ApiClient: the interceptors -------------------- *)
\* The request interceptor without the Authorization header.
requestInterceptorNoHeader(w) ==
  LET stored == w.localStorage.access_token
      token == IF hasWindow /\ stored # Null /\ stored # w.accessToken
               THEN stored
               ELSE w.accessToken
  IN [w EXCEPT !.accessToken = token]

\* Request interceptor: reload the access token from storage, then attach it.
requestInterceptor(w) ==
  LET stored == w.localStorage.access_token
      token == IF hasWindow /\ stored # Null /\ stored # w.accessToken
               THEN stored
               ELSE w.accessToken
  IN [w EXCEPT !.accessToken = token,
               !.req.auth = IF token # Null THEN token ELSE @]

\* this.client(config): the request interceptor runs, the request leaves.
dispatch(w) ==
  LET w1 == requestInterceptor(w)
  IN [w1 EXCEPT !.req.phase = "sent",
                !.req.dispatches = @ + 1]

\* A new request of the running operation.
request(w, op) ==
  dispatch([w EXCEPT !.req.op = op, !.req.retry = FALSE, !.req.auth = Null,
                     !.req.error = NoErr, !.req.rtSent = Null,
                     !.req.refreshed = Null, !.req.rotated = Null,
                     !.req.refreshErr = NoErr,
                     !.req.dispatches = 0, !.req.refreshes = 0,
                     !.req.err = NoErr])

isRefreshEndpoint(url) == url = "/auth/refresh"

\* The guard without its retry flag.
shouldRefreshIgnoringRetry(status, retry, url, rt) ==
  /\ status = 401
  /\ ~isRefreshEndpoint(url)
  /\ rt # Null

\* The guard without its refresh-token test.
shouldRefreshWithoutToken(status, retry, url, rt) ==
  /\ status = 401
  /\ ~retry
  /\ ~isRefreshEndpoint(url)

\* The guard without its status test.
shouldRefreshAnyStatus(status, retry, url, rt) ==
  /\ ~retry
  /\ ~isRefreshEndpoint(url)
  /\ rt # Null

\* The guard behind a shared in-flight refresh: no second refresh call while
\* one is in flight.
shouldRefreshCoalesced(status, retry, url, rt) ==
  /\ status = 401
  /\ ~retry
  /\ ~isRefreshEndpoint(url)
  /\ rt # Null
  /\ \A d \in Slots : calls[d].phase # "refreshing"

\* The guard of the response interceptor's refresh branch.
shouldRefresh(status, retry, url, rt) ==
  /\ status = 401
  /\ ~retry
  /\ ~isRefreshEndpoint(url)
  /\ rt # Null

\* The guard of the refresh catch branch.
isRefreshAuthError(status) == status = 401 \/ status = 403

(* ------------------ the callers of the shared client ------------------ *)
\* The operation is over: what stays of it is how it ended, not the request.
finish(w, outcome, e) ==
  [w EXCEPT !.req.phase = "done", !.req.outcome = outcome, !.req.err = e,
            !.req.creds = NoUser, !.req.arg = Null, !.req.auth = Null,
            !.req.error = NoErr, !.req.rtSent = Null, !.req.refreshed = Null,
            !.req.rotated = Null]

\* refreshUser without the finally block's setLoading(false).
refreshUserThenStillLoading(w, ok, data, e) ==
  LET w1 == IF ok
            THEN [w EXCEPT !.user = data.identity]
            ELSE IF e.status = 401 \/ e.status = 403
                 THEN clearTokens([w EXCEPT !.user = NoUser])
                 ELSE [w EXCEPT !.user = NoUser]
  IN finish(w1, "resolved", e)

\* refreshUser clearing the tokens on every failure.
refreshUserThenAlwaysClear(w, ok, data, e) ==
  LET w1 == IF ok
            THEN [w EXCEPT !.user = data.identity]
            ELSE clearTokens([w EXCEPT !.user = NoUser])
  IN finish([w1 EXCEPT !.loading = FALSE], "resolved", e)

\* refreshUser after getCurrentUser resolved or rejected.
refreshUserThen(w, ok, data, e) ==
  LET w1 == IF ok
            THEN [w EXCEPT !.user = data.identity]
            ELSE IF e.status = 401 \/ e.status = 403
                 THEN clearTokens([w EXCEPT !.user = NoUser])
                 ELSE [w EXCEPT !.user = NoUser]
  IN finish([w1 EXCEPT !.loading = FALSE], "resolved", e)

\* signOut with clearTokens at the end of the try block instead of in finally.
signOutThenInTry(w, e) ==
  finish([(IF e = NoErr THEN clearTokens(w) ELSE w) EXCEPT !.user = NoUser],
         "resolved", e)

\* signOut without AuthProvider.signOut's setUser(null).
signOutThenKeepUser(w, e) == finish(clearTokens(w), "resolved", e)

\* ApiClient.signOut's finally, then AuthProvider.signOut's setUser(null).
signOutThen(w, e) ==
  finish([clearTokens(w) EXCEPT !.user = NoUser], "resolved", e)

\* The shared client resolved the request with response data.
onFulfilled(w, data) ==
  CASE w.req.op \in {"signIn", "signUp"} ->
         LET w1 == storeAuthResponse(w, data)
         IN IF w.req.via = "AuthProvider.signIn"
            THEN request(w1, "getCurrentUser")
            ELSE finish(w1, "resolved", NoErr)
    [] w.req.op = "getCurrentUser" ->
         IF w.req.via = "ApiClient"
         THEN finish(w, "resolved", NoErr)
         ELSE refreshUserThen(w, TRUE, data, NoErr)
    [] w.req.op = "signOut" -> signOutThen(w, NoErr)
    [] OTHER -> finish(w, "resolved", NoErr)

\* The shared client rejected the request with error e.
onRejected(w, e) ==
  CASE w.req.op = "getCurrentUser" /\ w.req.via # "ApiClient" ->
         refreshUserThen(w, FALSE, NoErr, e)
    [] w.req.op = "signOut" -> signOutThen(w, e)
    [] OTHER -> finish(w, "rejected", e)

\* The error branch without originalRequest._retry = true.
responseErrorRetryUnset(w, e) ==
  IF shouldRefresh(e.status, w.req.retry, Url(w.req.op), w.refreshToken)
  THEN [w EXCEPT !.req.error = e,
                 !.req.phase = "refreshing",
                 !.req.rtSent = w.refreshToken,
                 !.req.refreshes = @ + 1]
  ELSE onRejected(w, e)

\* Response interceptor, error branch.
responseError(w, e) ==
  IF shouldRefresh(e.status, w.req.retry, Url(w.req.op), w.refreshToken)
  THEN [w EXCEPT !.req.retry = TRUE,
                 !.req.error = e,
                 !.req.phase = "refreshing",
                 !.req.rtSent = w.refreshToken,
                 !.req.refreshes = @ + 1]
  ELSE onRejected(w, e)

\* The try branch storing newTokens.refresh_token whether present or not.
refreshFulfilledAlwaysRotate(w, newTokens) ==
  LET w1 == setAccessToken(w, newTokens.access_token)
      w2 == setRefreshToken(w1, newTokens.refresh_token)
  IN dispatch([w2 EXCEPT !.req.auth = newTokens.access_token,
                         !.req.refreshed = newTokens.access_token,
                         !.req.rotated = newTokens.refresh_token])

\* The try branch re-issuing without storing the new access token.
refreshFulfilledNoStore(w, newTokens) ==
  LET w2 == IF newTokens.refresh_token # Null
            THEN setRefreshToken(w, newTokens.refresh_token)
            ELSE w
  IN dispatch([w2 EXCEPT !.req.auth = newTokens.access_token,
                         !.req.refreshed = newTokens.access_token,
                         !.req.rotated = newTokens.refresh_token])

\* The try branch after refreshAccessToken resolved with newTokens.
refreshFulfilled(w, newTokens) ==
  LET w1 == setAccessToken(w, newTokens.access_token)
      w2 == IF newTokens.refresh_token # Null
            THEN setRefreshToken(w1, newTokens.refresh_token)
            ELSE w1
  IN dispatch([w2 EXCEPT !.req.auth = newTokens.access_token,
                         !.req.refreshed = newTokens.access_token,
                         !.req.rotated = newTokens.refresh_token])

\* The catch branch rejecting with the error it caught.
refreshCatchErrorCaught(error, refreshError) == refreshError

\* The error the refresh catch branch rejects with.
refreshCatchError(error, refreshError) == error

\* The catch branch after refreshAccessToken rejected with refreshError.
refreshRejected(w, refreshError) ==
  LET w0 == [w EXCEPT !.req.refreshErr = refreshError]
      w1 == IF isRefreshAuthError(refreshError.status)
            THEN [clearTokens(w0) EXCEPT
                    !.href = IF hasWindow THEN "/login" ELSE @]
            ELSE w0
  IN onRejected(w1, refreshCatchError(w.req.error, refreshError))

(* ------------------------------ backend -------------------------------- *)
\* {access_token, refresh_token?} for the session of user u.
AuthResponses(u) ==
  {[access_token |-> a, refresh_token |-> r, identity |-> NoUser] :
     a \in {t \in Tokens : Owner(t) = u},
     r \in {Null} \cup {t \in Tokens : Owner(t) = u}}

NoData == [access_token |-> Null, refresh_token |-> Null, identity |-> NoUser]

\* The 2xx answers to a request: sign-in and sign-up answer the credentials,
\* /auth/me answers the bearer of a token, and no endpoint but the public
\* ones accepts a request that carries no token.
Successes(r) ==
  CASE r.op \in {"signIn", "signUp"} -> AuthResponses(r.creds)
    [] r.op = "getCurrentUser" ->
         IF r.auth = Null THEN {}
         ELSE {[NoData EXCEPT !.identity = Owner(r.auth)]}
    [] r.op = "signOut" -> {NoData}
    [] OTHER -> IF r.auth = Null THEN {} ELSE {NoData}

(* ------------------------------- Init ---------------------------------- *)
Init ==
  /\ hasWindow \in BOOLEAN
  /\ accessToken = Null
  /\ refreshToken = Null
  /\ localStorage = [access_token |-> Null, refresh_token |-> Null]
  /\ href = "none"
  /\ user = NoUser
  /\ loading = TRUE
  /\ mounted = FALSE
  /\ calls = [c \in Slots |-> FreeCall]
  /\ ops = 0
  /\ reloads = 0
  /\ caught = Undefined
  /\ formatted = Undefined
  /\ allowedRoles = Undefined
  /\ rendered = "none"
  /\ pushed = "none"
  /\ effectPending = FALSE

\* The task of slot c ends in world w.  A settled operation is remembered
\* until the next task only: its caller has its result by then.
Commit(c, w) ==
  /\ accessToken' = w.accessToken
  /\ refreshToken' = w.refreshToken
  /\ localStorage' = w.localStorage
  /\ href' = w.href
  /\ user' = w.user
  /\ loading' = w.loading
  /\ calls' = [d \in Slots |->
                IF d = c THEN w.req
                ELSE IF calls[d].phase = "done" THEN FreeCall ELSE calls[d]]
  /\ UNCHANGED <<formatVars, routeVars>>

\* The slot a new operation takes: the first one with nothing in flight.
Idle(c) ==
  /\ calls[c].phase \in {"free", "done"}
  /\ \A d \in Slots : d < c => calls[d].phase \notin {"free", "done"}

\* An operation starts in slot c with its first request.
Start(c, via, op, creds, arg) ==
  /\ Idle(c)
  /\ ops < MaxOps
  /\ ops' = ops + 1
  /\ Commit(c, request([World(c) EXCEPT
                          !.req = [FreeCall EXCEPT !.via = via,
                                                   !.creds = creds,
                                                   !.arg = arg]], op))
  /\ UNCHANGED <<hasWindow, mounted, reloads>>

(* ------------------------------ actions -------------------------------- *)
\* AuthProvider: useEffect(() => { refreshUser(); }, [])
Mount ==
  /\ hasWindow
  /\ ~mounted
  /\ mounted' = TRUE
  /\ \E c \in Slots :
       /\ Idle(c)
       /\ Commit(c, request([World(c) EXCEPT
                               !.req = [FreeCall EXCEPT
                                          !.via = "AuthProvider.refreshUser"]],
                            "getCurrentUser"))
  /\ UNCHANGED <<hasWindow, ops, reloads>>

\* AuthProvider.refreshUser, called through the context.
AuthRefreshUser ==
  /\ mounted
  /\ \E c \in Slots :
       Start(c, "AuthProvider.refreshUser", "getCurrentUser", NoUser, Null)

\* AuthProvider.signIn(credentials)
AuthSignIn ==
  /\ mounted
  /\ \E c \in Slots, u \in Users :
       Start(c, "AuthProvider.signIn", "signIn", u, Null)

\* AuthProvider.signOut()
AuthSignOut ==
  /\ mounted
  /\ \E c \in Slots :
       LET stored == localStorage.refresh_token
       IN IF stored # Null
          THEN Start(c, "AuthProvider.signOut", "signOut", NoUser, stored)
          ELSE /\ Idle(c)
               /\ ops < MaxOps
               /\ ops' = ops + 1
               /\ Commit(c, signOutThen(
                              [World(c) EXCEPT
                                 !.req = [FreeCall EXCEPT
                                            !.op = "signOut",
                                            !.via = "AuthProvider.signOut"]],
                              NoErr))
               /\ UNCHANGED <<hasWindow, mounted, reloads>>

\* apiClient.signIn(credentials), called outside the provider
\* (scripts/test-connection.ts).
ClientSignIn ==
  /\ ~hasWindow
  /\ \E c \in Slots, u \in Users : Start(c, "ApiClient", "signIn", u, Null)

\* apiClient.signUp(credentials)
ClientSignUp ==
  \E c \in Slots, u \in Users : Start(c, "ApiClient", "signUp", u, Null)

\* A page's call of an internship or application method of the client.
ClientCall ==
  \E c \in Slots : Start(c, "ApiClient", "api", NoUser, Null)

\* The backend answers a request of the shared client with 2xx.
Respond ==
  \E c \in Slots :
    /\ calls[c].phase = "sent"
    /\ \E data \in Successes(calls[c]) : Commit(c, onFulfilled(World(c), data))
    /\ UNCHANGED <<hasWindow, mounted, ops, reloads>>

\* A request of the shared client fails: an error status, no response or
\* the 30 s timeout.
Fail ==
  \E c \in Slots :
    /\ calls[c].phase = "sent"
    /\ \E e \in Failures("request") : Commit(c, responseError(World(c), e))
    /\ UNCHANGED <<hasWindow, mounted, ops, reloads>>

\* POST /auth/refresh answers the refresh token that was sent.
RefreshRespond ==
  \E c \in Slots :
    /\ calls[c].phase = "refreshing"
    /\ \E newTokens \in AuthResponses(Owner(calls[c].rtSent)) :
         Commit(c, refreshFulfilled(World(c), newTokens))
    /\ UNCHANGED <<hasWindow, mounted, ops, reloads>>

RefreshFail ==
  \E c \in Slots :
    /\ calls[c].phase = "refreshing"
    /\ \E e \in Failures("refresh") : Commit(c, refreshRejected(World(c), e))
    /\ UNCHANGED <<hasWindow, mounted, ops, reloads>>

\* A document load whose new client does not read refresh_token.
PageLoadWithoutRefreshToken ==
  /\ accessToken' = localStorage.access_token
  /\ refreshToken' = Null
  /\ user' = NoUser
  /\ loading' = TRUE
  /\ mounted' = FALSE
  /\ href' = "none"
  /\ calls' = [c \in Slots |-> FreeCall]
  /\ UNCHANGED <<hasWindow, localStorage, formatVars, routeVars>>

\* A document load: the module is evaluated again (new ApiClient(), lines
\* 515-518) and the provider starts from its initial state; what the old
\* document had in flight is gone.
PageLoad ==
  /\ accessToken' = localStorage.access_token
  /\ refreshToken' = localStorage.refresh_token
  /\ user' = NoUser
  /\ loading' = TRUE
  /\ mounted' = FALSE
  /\ href' = "none"
  /\ calls' = [c \in Slots |-> FreeCall]
  /\ UNCHANGED <<hasWindow, localStorage, formatVars, routeVars>>

\* The navigation assigned to window.location.href takes place.
Navigate ==
  /\ href = "/login"
  /\ PageLoad
  /\ UNCHANGED <<ops, reloads>>

\* The user reloads the page.
Reload ==
  /\ hasWindow
  /\ reloads < MaxReloads
  /\ reloads' = reloads + 1
  /\ PageLoad
  /\ UNCHANGED ops

Next ==
  \/ Mount
  \/ AuthRefreshUser
  \/ AuthSignIn
  \/ AuthSignOut
  \/ ClientSignIn
  \/ ClientSignUp
  \/ ClientCall
  \/ Respond
  \/ Fail
  \/ RefreshRespond
  \/ RefreshFail
  \/ Navigate
  \/ Reload

Spec == Init /\ [][Next]_vars

\* A network call of slot c returns: a response, a failure or the timeout.
NetworkReturns(c) ==
  /\ calls[c].phase \in {"sent", "refreshing"}
  /\ Respond \/ Fail \/ RefreshRespond \/ RefreshFail
  /\ calls'[c] # calls[c]

(* --------------------------- formatApiError ---------------------------- *)
\* window.location.origin and the API base URL, as fragments of a message.
origin == "window.location.origin"
apiUrl == "http://localhost:8000/api/v2"

TimeoutMessage ==
  <<"Request timeout. Please check your connection and try again.">>
CorsMessage ==
  <<"CORS error. Please check backend CORS configuration allows ", origin>>
NetworkMessage ==
  <<"Network error. Please check your connection and ensure the backend server is running at ",
    apiUrl, ". Check browser console for details.">>
RefusedMessage ==
  <<"Connection refused. Is the backend server running at ", apiUrl, "?">>
GenericNetworkMessage ==
  <<"Network error. Please check your connection to ", apiUrl,
    ". Check browser console for details.">>
UnexpectedMessage == <<"An unexpected error occurred">>
FallbackMessage == <<"An error occurred. Please try again.">>

\* JavaScript's truthiness, for the values of this model.
truthy(v) ==
  \/ v.type \in {"array", "object"}
  \/ v.type = "string" /\ Len(v.chars) > 0

\* o?.f
Get(o, f) == IF o.type = "undefined" THEN Undefined ELSE o[f]

\* String.prototype.includes, for a fragment of the message.
includes(v, fragment) ==
  /\ v.type = "string"
  /\ \E i \in 1..Len(v.chars) : v.chars[i] = fragment

\* v === 'text'
Is(v, text) == v.type = "string" /\ v.chars = <<text>>

\* Array.prototype.slice(start)
slice(items, start) == SubSeq(items, start + 1, Len(items))

\* Array.prototype.join, on the strings of the elements.
RECURSIVE join(_, _)
join(texts, sep) ==
  IF Len(texts) = 0 THEN <<>>
  ELSE IF Len(texts) = 1 THEN texts[1]
  ELSE texts[1] \o sep \o join(Tail(texts), sep)

\* One validation error rendered with its whole loc.
formatValidationErrorWholeLoc(entry) ==
  LET joined == IF entry.loc.type = "undefined"
                THEN Undefined
                ELSE Str(join([i \in 1..Len(entry.loc.items) |->
                                 entry.loc.items[i].chars], <<".">>))
      field == IF truthy(joined) THEN joined.chars ELSE <<"field">>
      message == IF truthy(entry.msg) THEN entry.msg.chars
                 ELSE <<"Invalid value">>
  IN field \o <<": ">> \o message

\* The callback of detail.map: one validation error rendered.
formatValidationError(entry) ==
  LET rest == IF entry.loc.type = "undefined"
              THEN <<>>
              ELSE slice(entry.loc.items, 1)
      joined == IF entry.loc.type = "undefined"
                THEN Undefined
                ELSE Str(join([i \in 1..Len(rest) |-> rest[i].chars],
                              <<".">>))
      field == IF truthy(joined) THEN joined.chars ELSE <<"field">>
      message == IF truthy(entry.msg) THEN entry.msg.chars
                 ELSE <<"Invalid value">>
  IN field \o <<": ">> \o message

\* The branch for errors without a response, with the network test ahead of
\* the CORS test.
formatNoResponseNetworkFirst(e) ==
  LET code == Get(e, "code")
      message == Get(e, "message")
  IN IF Is(code, "ECONNABORTED") \/ includes(message, "timeout")
       THEN TimeoutMessage
     ELSE IF \/ Is(code, "ERR_NETWORK")
             \/ includes(message, "Network Error")
             \/ includes(message, "Failed to fetch")
       THEN NetworkMessage
     ELSE IF includes(message, "CORS") \/ includes(message, "cross-origin")
       THEN CorsMessage
     ELSE IF Is(code, "ECONNREFUSED")
       THEN RefusedMessage
     ELSE IF truthy(message) THEN message.chars
     ELSE GenericNetworkMessage

\* formatApiError's branch for errors without a response.
formatNoResponse(e) ==
  LET code == Get(e, "code")
      message == Get(e, "message")
  IN IF Is(code, "ECONNABORTED") \/ includes(message, "timeout")
       THEN TimeoutMessage
     ELSE IF includes(message, "CORS") \/ includes(message, "cross-origin")
       THEN CorsMessage
     ELSE IF \/ Is(code, "ERR_NETWORK")
             \/ includes(message, "Network Error")
             \/ includes(message, "Failed to fetch")
       THEN NetworkMessage
     ELSE IF Is(code, "ECONNREFUSED")
       THEN RefusedMessage
     ELSE IF truthy(message) THEN message.chars
     ELSE GenericNetworkMessage

formatApiError(e) ==
  IF ~truthy(Get(e, "response")) THEN formatNoResponse(e)
  ELSE IF ~truthy(e.response.data)
    THEN IF truthy(e.message) THEN e.message.chars ELSE UnexpectedMessage
  ELSE LET detail == e.response.data.detail
       IN IF detail.type = "string" THEN detail.chars
          ELSE IF detail.type = "array"
            THEN join([i \in 1..Len(detail.items) |->
                         formatValidationError(detail.items[i])], <<", ">>)
          ELSE FallbackMessage

(* The errors a page can catch. *)
SeqsUpTo(S, n) == UNION {[1..k -> S] : k \in 0..n}

Optional(S) == {Undefined} \cup {Str(t) : t \in S}

LocItems == {<<>>, <<"email">>}
Msgs == {<<>>, <<"required">>}
Phrases == {"timeout", "CORS", "cross-origin", "Network Error",
            "Failed to fetch", "Request failed"}
Codes == {<<"ECONNABORTED">>, <<"ERR_NETWORK">>, <<"ECONNREFUSED">>,
          <<"ERR_BAD_REQUEST">>}

\* A loc is empty or starts with the place of the value, "body".
Locs ==
  {<<>>} \cup {<<Str(<<"body">>)>> \o l :
                l \in SeqsUpTo({Str(t) : t \in LocItems}, MaxLoc - 1)}

ValidationErrors ==
  [loc : {Undefined} \cup {Arr(l) : l \in Locs},
   msg : Optional(Msgs)]

Details ==
  {Undefined, Obj}
    \cup Optional({<<>>, <<"Invalid credentials">>})
    \cup {Arr(d) : d \in SeqsUpTo(ValidationErrors, MaxDetail)}

\* Errors without a response: what axios rejects with when nothing came back.
NoResponseErrors ==
  {Undefined} \cup
  [type : {"object"}, response : {Undefined}, code : Optional(Codes),
   message : Optional(SeqsUpTo(Phrases, MaxPhrases))]

\* Errors with a response, with and without a body.
ResponseErrors ==
  [type : {"object"},
   response : {[type |-> "object", data |-> Undefined]}
                \cup {[type |-> "object",
                       data |-> [type |-> "object", detail |-> d]] :
                        d \in Details},
   code : {Str(<<"ERR_BAD_RESPONSE">>)},
   message : Optional({<<"Request failed">>})]

\* A page has caught an error in the browser.
FormatInit ==
  /\ hasWindow = TRUE
  /\ accessToken = Null
  /\ refreshToken = Null
  /\ localStorage = [access_token |-> Null, refresh_token |-> Null]
  /\ href = "none"
  /\ user = NoUser
  /\ loading = FALSE
  /\ mounted = TRUE
  /\ calls = [c \in Slots |-> FreeCall]
  /\ ops = 0
  /\ reloads = 0
  /\ caught \in NoResponseErrors \cup ResponseErrors
  /\ formatted = Undefined
  /\ allowedRoles = Undefined
  /\ rendered = "none"
  /\ pushed = "none"
  /\ effectPending = FALSE

\* The page calls formatApiError(err).
FormatApiError ==
  /\ formatted = Undefined
  /\ formatted' = Str(formatApiError(caught))
  /\ UNCHANGED <<clientVars, user, loading, caught, routeVars>>

FormatNext == FormatApiError

FormatSpec == FormatInit /\ [][FormatNext]_vars

(* ---------------------------- ProtectedRoute --------------------------- *)
\* allowedRoles.includes(role)
roleIncluded(roles, role) == \E i \in 1..Len(roles.items) : roles.items[i] = role

\* ProtectedRoute's return value without the role test.
ProtectedRouteAnyRole(l, u, roles) ==
  IF l THEN "spinner"
  ELSE IF u = NoUser THEN "null"
  ELSE "children"

\* ProtectedRoute's return value.
ProtectedRoute(l, u, roles) ==
  IF l THEN "spinner"
  ELSE IF u = NoUser THEN "null"
  ELSE IF truthy(roles) /\ ~roleIncluded(roles, u) THEN "null"
  ELSE "children"

\* ProtectedRoute's effect: the route it pushes, if any.
protectedRouteEffect(l, u, roles) ==
  IF l THEN "none"
  ELSE IF u = NoUser THEN "/login"
  ELSE IF truthy(roles) /\ ~roleIncluded(roles, u) THEN "/internships"
  ELSE "none"

AllowedRolesProps == {Undefined} \cup {Arr(r) : r \in SeqsUpTo(Users, MaxRoles)}

\* A page wrapped in ProtectedRoute is about to mount under a new provider.
RouteInit ==
  /\ hasWindow = TRUE
  /\ accessToken = Null
  /\ refreshToken = Null
  /\ localStorage = [access_token |-> Null, refresh_token |-> Null]
  /\ href = "none"
  /\ user = NoUser
  /\ loading = TRUE
  /\ mounted = TRUE
  /\ calls = [c \in Slots |-> FreeCall]
  /\ ops = 0
  /\ reloads = 0
  /\ caught = Undefined
  /\ formatted = Undefined
  /\ allowedRoles \in AllowedRolesProps
  /\ rendered = "none"
  /\ pushed = "none"
  /\ effectPending = FALSE

\* The first render.
RouteMount ==
  /\ rendered = "none"
  /\ rendered' = ProtectedRoute(loading, user, allowedRoles)
  /\ effectPending' = TRUE
  /\ UNCHANGED <<clientVars, user, loading, formatVars, allowedRoles, pushed>>

\* The provider's state changes (refreshUser or signOut ends) and the route
\* renders again.
RouteAuthChange ==
  /\ rendered # "none"
  /\ \E u \in Users \cup {NoUser} :
       /\ <<u, FALSE>> # <<user, loading>>
       /\ user' = u
       /\ loading' = FALSE
       /\ rendered' = ProtectedRoute(FALSE, u, allowedRoles)
       /\ effectPending' = TRUE
  /\ UNCHANGED <<clientVars, formatVars, allowedRoles, pushed>>

\* The effect runs after the render.
RouteEffect ==
  /\ effectPending
  /\ effectPending' = FALSE
  /\ LET to == protectedRouteEffect(loading, user, allowedRoles)
     IN pushed' = IF to = "none" THEN pushed ELSE to
  /\ UNCHANGED <<clientVars, user, loading, formatVars, allowedRoles,
                 rendered>>

RouteNext ==
  \/ RouteMount
  \/ RouteAuthChange
  \/ RouteEffect

RouteSpec == RouteInit /\ [][RouteNext]_vars

TypeOK ==
  /\ hasWindow \in BOOLEAN
  /\ accessToken \in {Null} \cup Tokens
  /\ refreshToken \in {Null} \cup Tokens
  /\ user \in Users \cup {NoUser}
  /\ loading \in BOOLEAN
  /\ ops \in 0..MaxOps
  /\ reloads \in 0..MaxReloads

(* ------------------------------ claims --------------------------------- *)
NoTokens ==
  /\ accessToken = Null
  /\ refreshToken = Null
  /\ hasWindow => localStorage = [access_token |-> Null, refresh_token |-> Null]

TokensUnchanged ==
  /\ accessToken' = accessToken
  /\ refreshToken' = refreshToken
  /\ localStorage' = localStorage

\* The refresh call of slot c fails in this step.
RefreshFailed(c) ==
  /\ calls[c].phase = "refreshing"
  /\ calls'[c].refreshErr.src = "refresh"

\* The refresh call of slot c succeeds in this step and the request goes
\* out again.
RefreshSucceeded(c) ==
  /\ calls[c].phase = "refreshing"
  /\ calls'[c].phase = "sent"
  /\ calls'[c].retry

\* The request of slot c is answered with 401 in this step.
Answered401(c) ==
  /\ calls[c].phase = "sent"
  /\ \/ calls'[c].phase = "refreshing"
     \/ /\ calls'[c].phase = "done"
        /\ calls'[c].err = Err("request", 401, "ERR_BAD_RESPONSE")

\* Whoever awaits the request of slot c clears the tokens when it fails
\* with 401: refreshUser's catch and signOut's finally.
CallerClears(c) ==
  \/ calls[c].op = "getCurrentUser" /\ calls[c].via # "ApiClient"
  \/ calls[c].op = "signOut"

\* C1: a request gets at most one refresh call and is sent at most twice; a
\* 401 on the re-issued request starts no second refresh and is rejected to
\* the caller.
C1_RetryAtMostOnce ==
  /\ [](\A c \in Slots : calls[c].dispatches <= 2 /\ calls[c].refreshes <= 1)
  /\ [][\A c \in Slots :
          (calls[c].retry /\ Answered401(c))
            => /\ calls'[c].phase = "done"
               /\ calls'[c].refreshes = calls[c].refreshes
               /\ calls'[c].dispatches = calls[c].dispatches
               /\ calls[c].via = "ApiClient" => calls'[c].outcome = "rejected"
       ]_vars

C1_Witness ==
  \E c \in Slots :
    /\ calls[c].phase = "done"
    /\ calls[c].outcome = "rejected"
    /\ calls[c].dispatches = 2
    /\ calls[c].refreshes = 1
    /\ calls[c].err.status = 401

\* C2: when the refresh call is rejected with 401 or 403, both tokens are
\* cleared in memory and in storage, the redirect to /login is assigned, and
\* the identity the provider exposes is null.
C2_RejectedRefreshEndsSession ==
  [][\A c \in Slots :
       (RefreshFailed(c) /\ calls'[c].refreshErr.status \in {401, 403})
         => /\ NoTokens'
            /\ hasWindow => href' = "/login"
            /\ user' = NoUser
    ]_vars

\* C3: when the refresh call fails with no response or by timeout, the
\* tokens in memory and in storage are what they were and no redirect is
\* assigned.
C3_NetworkFailureKeepsTokens ==
  [][\A c \in Slots :
       (RefreshFailed(c) /\ calls'[c].refreshErr.status = 0)
         => /\ TokensUnchanged
            /\ href' = href
    ]_vars

\* C4: signOut ends with both tokens absent in memory and in storage,
\* whether its network call succeeded, failed, or was never made.
C4_SignOutClears ==
  [][\A c \in Slots :
       (/\ calls'[c].op = "signOut"
        /\ calls'[c].phase = "done"
        /\ calls'[c] # calls[c])
         => NoTokens'
    ]_vars

C4_Witness ==
  \E c \in Slots :
    /\ calls[c].op = "signOut"
    /\ calls[c].phase = "done"
    /\ calls[c].err.src = "request"
    /\ calls[c].err.status = 0
    /\ NoTokens

\* C5: the access token is never written to durable storage, so a freshly
\* started client holds no access token.
C5_AccessTokenNotStored ==
  /\ localStorage.access_token = Null
  /\ (\A c \in Slots : calls[c].phase = "free") => accessToken = Null

\* C6: after a successful refresh the stored access token is the one the
\* refresh returned; the refresh token is replaced if the response carries
\* one and is unchanged otherwise.
C6_RefreshStoresTokens ==
  [][\A c \in Slots :
       RefreshSucceeded(c)
         => /\ accessToken' = calls'[c].refreshed
            /\ refreshToken' = IF calls'[c].rotated # Null
                               THEN calls'[c].rotated
                               ELSE refreshToken
            /\ hasWindow =>
                 /\ localStorage'.access_token = calls'[c].refreshed
                 /\ localStorage'.refresh_token =
                      IF calls'[c].rotated # Null
                      THEN calls'[c].rotated
                      ELSE localStorage.refresh_token
    ]_vars

C6_Witness ==
  \E c \in Slots :
    /\ calls[c].phase = "sent"
    /\ calls[c].retry
    /\ calls[c].rotated = Null
    /\ calls[c].refreshed # Null
    /\ accessToken = calls[c].refreshed
    /\ refreshToken = calls[c].rtSent
    /\ refreshToken # Null

\* C7: a request is re-issued only in the step in which its refresh call
\* succeeds, after the new access token is stored, and carries that token;
\* after a failed refresh it is not sent again.
C7_ReissueAfterRefresh ==
  /\ [](\A c \in Slots :
          /\ calls[c].dispatches = 2 => calls[c].refreshErr = NoErr
          /\ (calls[c].phase = "sent" /\ calls[c].dispatches = 2)
               => /\ calls[c].refreshed # Null
                  /\ calls[c].auth = calls[c].refreshed)
  /\ [][\A c \in Slots :
          /\ RefreshSucceeded(c)
               => /\ accessToken' = calls'[c].refreshed
                  /\ calls'[c].auth = accessToken'
                  /\ calls'[c].dispatches = 2
          /\ RefreshFailed(c)
               => /\ calls'[c].phase = "done"
                  /\ calls'[c].dispatches = 1
          /\ (calls'[c].dispatches = 2 /\ calls[c].dispatches # 2)
               => RefreshSucceeded(c)
       ]_vars

C7_Witness ==
  \E c \in Slots :
    /\ calls[c].phase = "sent"
    /\ calls[c].dispatches = 2
    /\ calls[c].auth = calls[c].refreshed
    /\ calls[c].auth # Null

\* C8 as stated: when the request answered 401 is the refresh call itself, or
\* when no refresh token is held, no refresh call is made, the original
\* failure is rejected to the caller and the tokens are unchanged.
C8_NoRefreshTokensUnchanged ==
  [][\A c \in Slots :
       /\ (RefreshFailed(c) /\ calls'[c].refreshErr.status = 401)
            => /\ calls'[c].refreshes = calls[c].refreshes
               /\ calls'[c].phase = "done"
               /\ calls'[c].err = calls[c].error
               /\ TokensUnchanged
       /\ (Answered401(c) /\ refreshToken = Null)
            => /\ calls'[c].refreshes = calls[c].refreshes
               /\ calls'[c].phase = "done"
               /\ calls'[c].err = Err("request", 401, "ERR_BAD_RESPONSE")
               /\ TokensUnchanged
    ]_vars

\* C8 amended: in both cases no refresh call is made and the original
\* failure is rejected to the caller; a 401 on the refresh call clears both
\* tokens, and with no refresh token held the tokens are unchanged unless
\* the caller is refreshUser or signOut, which clear them on that failure.
C8_NoRefresh ==
  [][\A c \in Slots :
       /\ (RefreshFailed(c) /\ calls'[c].refreshErr.status = 401)
            => /\ calls'[c].refreshes = calls[c].refreshes
               /\ calls'[c].phase = "done"
               /\ calls'[c].err = calls[c].error
               /\ NoTokens'
       /\ (Answered401(c) /\ refreshToken = Null)
            => /\ calls'[c].refreshes = calls[c].refreshes
               /\ calls'[c].phase = "done"
               /\ calls'[c].err = Err("request", 401, "ERR_BAD_RESPONSE")
               /\ IF CallerClears(c) THEN NoTokens' ELSE TokensUnchanged
    ]_vars

C8_Witness ==
  \E c \in Slots :
    /\ calls[c].phase = "done"
    /\ calls[c].op = "api"
    /\ calls[c].err.status = 401
    /\ ~calls[c].retry
    /\ calls[c].refreshes = 0
    /\ refreshToken = Null
    /\ accessToken # Null

\* C9: when the refresh call fails with no response or by timeout, the error
\* rejected to the caller is the 401 of the original request.
C9_OriginalErrorRejected ==
  [][\A c \in Slots :
       (RefreshFailed(c) /\ calls'[c].refreshErr.status = 0)
         => /\ calls'[c].phase = "done"
            /\ calls'[c].err = calls[c].error
            /\ calls'[c].err = Err("request", 401, "ERR_BAD_RESPONSE")
            /\ calls[c].via = "ApiClient" => calls'[c].outcome = "rejected"
    ]_vars

C9_Witness ==
  \E c \in Slots :
    /\ calls[c].phase = "done"
    /\ calls[c].refreshErr.src = "refresh"
    /\ calls[c].refreshErr.status = 0
    /\ calls[c].err.src = "request"
    /\ calls[c].err.status = 401

\* C10: when AuthProvider.signIn resolves, the identity is non-null and is
\* the identity of the credentials used.
C10_SignInSetsIdentity ==
  [][\A c \in Slots :
       (/\ calls[c].via = "AuthProvider.signIn"
        /\ calls[c].phase # "done"
        /\ calls'[c].phase = "done"
        /\ calls'[c].outcome = "resolved")
         => /\ user' # NoUser
            /\ user' = calls[c].creds
    ]_vars

\* A request of slot c leaves in this step: a new request or a re-issue.
Dispatched(c) ==
  /\ calls'[c].phase = "sent"
  /\ \/ calls[c].phase # "sent"
     \/ calls'[c].op # calls[c].op

\* The request of slot c fails in this step with something other than a 401
\* response.
FailedNot401(c) ==
  /\ calls[c].phase = "sent"
  /\ \/ /\ calls'[c].phase = "done"
        /\ calls'[c].err.src = "request"
        /\ calls'[c].err.status # 401
     \/ /\ calls'[c].phase = "refreshing"
        /\ calls'[c].error.status # 401

\* C11: no identity fetch and no protected call is in flight that was sent
\* without an access token.
C11_NoRequestWithoutToken ==
  \A c \in Slots :
    (calls[c].phase = "sent" /\ calls[c].op \in {"getCurrentUser", "api"})
      => calls[c].auth # Null

\* C12: a request that leaves carries the access token held at that moment,
\* and no Authorization header when none is held.
C12_BearerAttached ==
  [][\A c \in Slots :
       Dispatched(c)
         => calls'[c].auth = accessToken'
    ]_vars

C12_Witness ==
  \E c \in Slots :
    /\ calls[c].phase = "sent"
    /\ calls[c].dispatches = 1
    /\ calls[c].auth # Null
    /\ calls[c].auth = accessToken

\* C13 as stated: a request that fails with anything but a 401 response
\* starts no refresh call, leaves both tokens unchanged and is rejected with
\* that error.
C13_OtherFailureKeepsTokens ==
  [][\A c \in Slots :
       FailedNot401(c)
         => /\ calls'[c].phase = "done"
            /\ calls'[c].refreshes = calls[c].refreshes
            /\ calls'[c].err.src = "request"
            /\ TokensUnchanged
    ]_vars

\* C13 amended: such a failure starts no refresh call and is rejected with
\* that error; the tokens are unchanged unless the caller is signOut, or
\* refreshUser receiving a 403, which clear both.
C13_OtherFailureNoRefresh ==
  [][\A c \in Slots :
       FailedNot401(c)
         => /\ calls'[c].phase = "done"
            /\ calls'[c].refreshes = calls[c].refreshes
            /\ calls'[c].err.src = "request"
            /\ IF \/ calls[c].op = "signOut"
                  \/ /\ calls[c].op = "getCurrentUser"
                     /\ calls[c].via # "ApiClient"
                     /\ calls'[c].err.status = 403
               THEN NoTokens'
               ELSE TokensUnchanged
    ]_vars

C13_Witness ==
  \E c \in Slots :
    /\ calls[c].phase = "done"
    /\ calls[c].op = "api"
    /\ calls[c].err = Err("request", 403, "ERR_BAD_RESPONSE")
    /\ calls[c].refreshes = 0
    /\ refreshToken # Null
    /\ accessToken # Null

\* C14: a call has at most one refresh call, and every call answered 401 for
\* the first time while a refresh token is held starts its own refresh call
\* with that token, whatever the other calls are doing.
C14_RefreshPerCall ==
  /\ [](\A c \in Slots : calls[c].refreshes <= 1)
  /\ [][\A c \in Slots :
          (Answered401(c) /\ ~calls[c].retry /\ refreshToken # Null)
            => /\ calls'[c].phase = "refreshing"
               /\ calls'[c].refreshes = 1
               /\ calls'[c].rtSent = refreshToken
       ]_vars

C14_Witness ==
  \E c, d \in Slots :
    /\ c # d
    /\ calls[c].phase = "refreshing"
    /\ calls[d].phase = "refreshing"
    /\ calls[c].rtSent = calls[d].rtSent

\* formatApiError has returned for an error that has a response with data.
FormattedWithData ==
  /\ formatted.type = "string"
  /\ truthy(Get(caught, "response"))
  /\ truthy(caught.response.data)

\* formatApiError has returned for an error without a response.
FormattedNoResponse ==
  /\ formatted.type = "string"
  /\ ~truthy(Get(caught, "response"))

\* '<loc without its first element, joined by .>: <msg>' with the defaults
\* 'field' and 'Invalid value'; emptyToo says whether an empty text counts as
\* a missing one.
EntryText(entry, emptyToo) ==
  LET items == IF entry.loc.type = "undefined" THEN <<>> ELSE entry.loc.items
      rest == [i \in 1..(IF Len(items) = 0 THEN 0 ELSE Len(items) - 1) |->
                 items[i + 1].chars]
      dotted == join(rest, <<".">>)
      noField == \/ Len(rest) = 0
                 \/ emptyToo /\ dotted = <<>>
      noMsg == \/ entry.msg.type = "undefined"
               \/ emptyToo /\ entry.msg.chars = <<>>
  IN (IF noField THEN <<"field">> ELSE dotted)
       \o <<": ">>
       \o (IF noMsg THEN <<"Invalid value">> ELSE entry.msg.chars)

DetailText(detail, emptyToo) ==
  IF detail.type = "string" THEN detail.chars
  ELSE IF detail.type = "array"
    THEN join([i \in 1..Len(detail.items) |->
                 EntryText(detail.items[i], emptyToo)], <<", ">>)
  ELSE FallbackMessage

\* C15 as stated: for an error that has a response with data, a string
\* detail is returned verbatim, an array detail as its entries '<loc without
\* its first element, joined by .>: <msg>' joined by ', ', with 'field' when
\* the remaining loc is empty or missing and 'Invalid value' when msg is
\* missing, and any other detail as the generic fallback.
C15_DetailRendered ==
  FormattedWithData
    => formatted.chars = DetailText(caught.response.data.detail, FALSE)

\* C15 amended: as above, with 'field' also when the remaining loc joins to
\* the empty string and 'Invalid value' also when msg is the empty string.
C15_DetailRenderedOrDefault ==
  FormattedWithData
    => formatted.chars = DetailText(caught.response.data.detail, TRUE)

C15_Witness ==
  /\ FormattedWithData
  /\ caught.response.data.detail.type = "array"
  /\ Len(caught.response.data.detail.items) = 2
  /\ formatted.chars = <<"email", ".", "email", ": ", "required", ", ",
                         "field", ": ", "Invalid value">>

\* Which of the classes timeout, CORS, network failure and connection
\* refused the error e belongs to, in the order of their priority.
ErrorClasses(e) ==
  LET code == Get(e, "code")
      fragments == IF Get(e, "message").type = "string"
                   THEN {e.message.chars[i] : i \in 1..Len(e.message.chars)}
                   ELSE {}
  IN << code = Str(<<"ECONNABORTED">>) \/ "timeout" \in fragments,
        {"CORS", "cross-origin"} \cap fragments # {},
        code = Str(<<"ERR_NETWORK">>)
          \/ {"Network Error", "Failed to fetch"} \cap fragments # {},
        code = Str(<<"ECONNREFUSED">>) >>

ClassMessages ==
  <<TimeoutMessage, CorsMessage, NetworkMessage, RefusedMessage>>

\* C16: for an error without a response formatApiError returns the message
\* of the first class the error belongs to, in the order timeout, CORS,
\* network failure, connection refused; the four messages differ; an error
\* of no class gets its own message, or the generic network message when it
\* has none.
C16_NoResponseClassified ==
  FormattedNoResponse
    => LET classes == ErrorClasses(caught)
       IN /\ \A i \in 1..4 :
               (classes[i] /\ \A j \in 1..(i - 1) : ~classes[j])
                 => formatted.chars = ClassMessages[i]
          /\ \A i, j \in 1..4 : i # j => ClassMessages[i] # ClassMessages[j]
          /\ (\A i \in 1..4 : ~classes[i])
               => formatted.chars =
                    IF Get(caught, "message").type = "string"
                         /\ caught.message.chars # <<>>
                    THEN caught.message.chars
                    ELSE GenericNetworkMessage

C16_Witness ==
  /\ FormattedNoResponse
  /\ caught.type = "object"
  /\ caught.code = Str(<<"ERR_NETWORK">>)
  /\ caught.message = Str(<<"Network Error", "CORS">>)
  /\ formatted.chars = CorsMessage

\* C17: ProtectedRoute shows its children only when loading is false, a user
\* is present and, when allowedRoles is given, the user's role is in it; it
\* pushes nothing while loading, and once its effect has run with loading
\* false the last push is /login when there is no user and /internships
\* when the role is not allowed.
C17_ProtectedRouteGuards ==
  LET given == allowedRoles.type = "array"
      roles == IF given
               THEN {allowedRoles.items[i] : i \in 1..Len(allowedRoles.items)}
               ELSE {}
  IN /\ rendered = "children"
          => /\ ~loading
             /\ user # NoUser
             /\ given => user \in roles
     /\ loading => pushed = "none"
     /\ (rendered # "none" /\ ~effectPending /\ ~loading)
          => /\ user = NoUser => pushed = "/login"
             /\ (user # NoUser /\ given /\ user \notin roles)
                  => pushed = "/internships"

C17_Witness ==
  /\ rendered = "null"
  /\ ~effectPending
  /\ ~loading
  /\ user = "student"
  /\ allowedRoles = Arr(<<"admin">>)
  /\ pushed = "/internships"

\* C18: a sign-in that fails, by an error response or without a response, is
\* rejected to the caller with that error and leaves the tokens unchanged.
C18_FailedSignInKeepsTokens ==
  [][\A c \in Slots :
       (/\ calls[c].op = "signIn"
        /\ calls[c].phase = "sent"
        /\ \/ calls'[c].phase = "refreshing"
           \/ calls'[c].phase = "done" /\ calls'[c].err.src = "request")
         => /\ calls'[c].phase = "done"
            /\ calls'[c].outcome = "rejected"
            /\ TokensUnchanged
    ]_vars

\* C19: signOut sends its notification with the stored refresh token while
\* the tokens are still held, no step of its own before the notification has
\* completed or failed clears them, and the step in which it ends clears the
\* tokens and the identity.
C19_SignOutOrder ==
  [][\A c \in Slots :
       /\ (/\ calls'[c].op = "signOut"
           /\ calls'[c].phase = "sent"
           /\ calls[c].phase \in {"free", "done"})
            => /\ calls'[c].arg = localStorage.refresh_token
               /\ calls'[c].arg # Null
               /\ TokensUnchanged
               /\ user' = user
       /\ (/\ calls[c].op = "signOut"
           /\ calls[c].phase \in {"sent", "refreshing"}
           /\ calls'[c].phase \in {"sent", "refreshing"}
           /\ calls'[c] # calls[c])
            => /\ calls'[c].arg = calls[c].arg
               /\ user' = user
               /\ refreshToken # Null => refreshToken' # Null
       /\ (/\ calls'[c].op = "signOut"
           /\ calls'[c].phase = "done"
           /\ calls'[c] # calls[c])
            => /\ NoTokens'
               /\ user' = NoUser
    ]_vars

C19_Witness ==
  \E c \in Slots :
    /\ calls[c].op = "signOut"
    /\ calls[c].phase = "sent"
    /\ calls[c].arg # Null
    /\ calls[c].arg = refreshToken
    /\ user # NoUser

\* C20: when refreshUser's identity fetch is rejected, the identity becomes
\* null; both tokens are cleared if the rejected error has status 401 or 403
\* and are unchanged otherwise.
C20_RefreshUserFailure ==
  [][\A c \in Slots :
       (/\ calls[c].op = "getCurrentUser"
        /\ calls[c].via # "ApiClient"
        /\ calls[c].phase \in {"sent", "refreshing"}
        /\ calls'[c].phase = "done"
        /\ calls'[c].err # NoErr)
         => /\ user' = NoUser
            /\ IF calls'[c].err.status \in {401, 403}
               THEN NoTokens'
               ELSE TokensUnchanged
    ]_vars

C20_Witness ==
  \E c \in Slots :
    /\ calls[c].op = "getCurrentUser"
    /\ calls[c].phase = "done"
    /\ calls[c].err.src = "request"
    /\ calls[c].err.status \notin {401, 403}
    /\ user = NoUser
    /\ refreshToken # Null
    /\ accessToken # Null

\* A new document is loaded in this step: a reload, or the navigation to
\* /login taking place.
PageLoaded ==
  \/ reloads' # reloads
  \/ href = "/login" /\ href' = "none"

\* The sign-in or sign-up of slot c is answered 2xx in this step.
SignedIn(c) ==
  /\ calls[c].op \in {"signIn", "signUp"}
  /\ calls[c].phase = "sent"
  /\ \/ calls'[c].op = "getCurrentUser"
     \/ /\ calls'[c].phase = "done"
        /\ calls'[c].outcome = "resolved"
        /\ calls'[c].err = NoErr

\* C21: the client of a newly loaded document holds as its refresh token the
\* value in storage, which is the value the client before it held last: the
\* token last stored, or none after the tokens were cleared.
C21_RefreshTokenSurvivesReload ==
  [][PageLoaded
       => /\ refreshToken' = localStorage.refresh_token
          /\ refreshToken' = refreshToken
          /\ localStorage' = localStorage
    ]_vars

C21_Witness ==
  /\ hasWindow
  /\ reloads = 1
  /\ ~mounted
  /\ refreshToken # Null
  /\ refreshToken = localStorage.refresh_token

\* C22: when signOut has just completed and a refresh call that was in
\* flight meanwhile is answered, both tokens stay absent.
C22_NoTokensAfterSignOut ==
  [][\A c, d \in Slots :
       (/\ calls[d].op = "signOut"
        /\ calls[d].phase = "done"
        /\ calls[c].phase = "refreshing"
        /\ calls'[c] # calls[c])
         => NoTokens'
    ]_vars

\* C23: when the refresh of one request has stored a rotated refresh token,
\* the 401 answer to another request's refresh, sent with the superseded
\* token, neither changes the tokens nor redirects to /login.
C23_SupersededRefreshHarmless ==
  [][\A c, d \in Slots :
       (/\ c # d
        /\ RefreshFailed(c)
        /\ calls'[c].refreshErr.status = 401
        /\ calls[d].rotated # Null
        /\ calls[d].rotated = refreshToken
        /\ calls[c].rtSent # refreshToken)
         => /\ TokensUnchanged
            /\ href' = href
    ]_vars

C25_IdentityImpliesToken == user # NoUser => accessToken # Null

\* C26: after a sign-in or sign-up was answered 2xx, the refresh token held
\* is one issued to the user who signed in, not one left from the session of
\* somebody else.
C26_RefreshTokenOfThisSignIn ==
  [][\A c \in Slots :
       (SignedIn(c) /\ refreshToken' # Null)
         => Owner(refreshToken') = calls[c].creds
    ]_vars

\* The network calls the operation of request r can still make: a request
\* not yet retried may be followed by a refresh call and a re-issue, and
\* AuthProvider.signIn fetches the identity after its sign-in.
CallsLeft(r) ==
  (CASE r.phase = "sent" /\ ~r.retry -> 3
     [] r.phase = "refreshing" -> 2
     [] r.phase = "sent" /\ r.retry -> 1
     [] OTHER -> 0)
  + (IF r.op = "signIn" /\ r.via = "AuthProvider.signIn" THEN 3 ELSE 0)

\* C27: every request in flight waits for a network call that can return,
\* and every return leaves the operation strictly fewer network calls to
\* make, none when it is settled to its caller: no request can stay pending
\* once its network calls return.
C27_RequestsSettle ==
  /\ [](\A c \in Slots :
          calls[c].phase \in {"sent", "refreshing"}
            => ENABLED NetworkReturns(c))
  /\ [][\A c \in Slots :
          (calls[c].phase \in {"sent", "refreshing"}
             /\ calls'[c] # calls[c] /\ ~PageLoaded)
            => CallsLeft(calls'[c]) < CallsLeft(calls[c])
       ]_vars
  /\ [](\A c \in Slots : calls[c].phase = "done" <=> calls[c].outcome # "none")

C27_Witness ==
  \E c \in Slots :
    /\ calls[c].phase = "done"
    /\ calls[c].dispatches = 2
    /\ calls[c].refreshes = 1
    /\ calls[c].outcome = "rejected"

\* C28: loading is true until the provider has mounted; while a mounted
\* provider is loading, its mount-time identity fetch is in flight; the end
\* of an identity fetch of refreshUser, whatever its outcome, makes loading
\* false; and loading becomes true again only in a new document.
C28_LoadingEnds ==
  /\ [](~mounted => loading)
  /\ [][\A c \in Slots :
          (/\ calls[c].op = "getCurrentUser"
           /\ calls[c].via # "ApiClient"
           /\ calls'[c].phase = "done"
           /\ calls'[c] # calls[c])
            => ~loading'
       ]_vars
  /\ [][(~loading /\ loading') => PageLoaded]_vars
  /\ [](mounted /\ loading
         => \E c \in Slots :
              /\ calls[c].op = "getCurrentUser"
              /\ calls[c].via = "AuthProvider.refreshUser"
              /\ calls[c].phase \in {"sent", "refreshing"})

C28_Witness ==
  /\ mounted
  /\ ~loading
  /\ user = NoUser
  /\ \E c \in Slots :
       /\ calls[c].op = "getCurrentUser"
       /\ calls[c].phase = "done"
       /\ calls[c].err.status = 0
       /\ calls[c].err.src = "request"
====
